---- MODULE Spec2Model ----
(***************************************************************************)
(* The <turbine-map> custom element (plugins/turbine-map.js).              *)
(*                                                                         *)
(* The repository holds three texts of the element:                        *)
(*   "es5"   src/plugins/turbine-map.js lines 8-260 (function syntax),     *)
(*   "class" src/unnamed/part_000 (class syntax),                          *)
(*   "tail"  src/plugins/turbine-map.js lines 261-478, the class text      *)
(*           whose token read names another attribute (line 311).          *)
(* The variable `variant` says which text the page runs.                   *)
(*                                                                         *)
(* The Mapbox GL JS library, the document, fetch and the browser's event   *)
(* loop are the environment: their events (onload, fetch settling,         *)
(* 'style.load', 'idle') are actions, and every callback of the element    *)
(* between two awaits is one action.                                       *)
(*                                                                         *)
(* Left out: the numeric configuration (width, height, scale, rotation-*,  *)
(* z-offset, style-url, centre), which only flows into paint properties    *)
(* and constructor options and decides no branch.                          *)
(***************************************************************************)
EXTENDS Integers, Sequences, FiniteSets, TLC

VARIABLES
    variant,      \* which text of the element the page runs
    pageCss,      \* the page itself already holds <link rel=stylesheet href=MAPBOX_CSS>
    cssInjected,  \* number of link tags appended by ensureLink
    pageJs,       \* the page itself already holds <script src=MAPBOX_JS>
    jsInjected,   \* number of script tags appended by ensureScript
    mapboxgl,     \* window.mapboxgl is defined (the library script has run)
    accessToken,  \* mapboxgl.accessToken
    turbineMap,   \* window.turbineMap (index into maps, 0 = unset)
    connected,    \* per element: it is attached to the document
    _map,         \* per element: this._map (index into maps, 0 = null)
    msg,          \* per element: textContent of the #msg node
    tasks,        \* one record per connectedCallback: the run of _init it started
    maps,         \* one record per `new mapboxgl.Map`, with its style.load handler
    pLines,       \* parser harness: the lines handed to the parsing loop
    pI,           \* parser harness: number of lines the loop has consumed
    pFeatures     \* parser harness: the loop's features array

vars == <<variant, pageCss, cssInjected, pageJs, jsInjected, mapboxgl, accessToken,
          turbineMap, connected, _map, msg, tasks, maps, pLines, pI, pFeatures>>

docVars == <<pageCss, cssInjected, pageJs, jsInjected>>
parseVars == <<pLines, pI, pFeatures>>

(***************************************************************************)
(* Bounds.                                                                 *)
(***************************************************************************)
NumElems == 2      \* <turbine-map> elements on the page
MaxAttach == 2     \* connectedCallback calls over the whole run
MaxLines == 2      \* lines of a coordinate file in the parser harness

Elems == 1..NumElems

(***************************************************************************)
(* JavaScript values.                                                      *)
(***************************************************************************)
NULL == "<null>"            \* getAttribute of an absent attribute
UNDEFINED == "<undefined>"  \* attribute(name) without fallback, nothing set
UNREAD == "<unread>"        \* model only: the attribute was never looked at

Falsy(s) == s \in {NULL, UNDEFINED, ""}

\* The attribute settings tried: <<mapbox-token, coordinates-url, model-url,
\* model-url2>>, each absent (NULL), empty or set.
AttrConfigs ==
    { <<"v", "v", "v", NULL>>, <<"v", "v", "v", "">>, <<"v", "v", "v", "v">>,
      <<NULL, "v", "v", NULL>>, <<"", "v", "v", NULL>>,
      <<"v", NULL, "v", NULL>>, <<"v", "", "v", NULL>>,
      <<"v", "v", NULL, NULL>>, <<"v", "v", "", NULL>>,
      <<NULL, "", NULL, NULL>>, <<"v", NULL, "", NULL>> }

\* attribute(name, fallback) applied to what getAttribute returned
attribute(v, fallback) ==
    IF v = NULL \/ v = UNDEFINED \/ v = "" THEN fallback ELSE v

(***************************************************************************)
(* The coordinate file.  A line is the sequence of its comma-separated,    *)
(* trimmed parts; <<"">> is a blank line.  Number() is modelled on the     *)
(* field texts that occur.                                                 *)
(***************************************************************************)
Num(n) == [kind |-> "num", v |-> n]
NaN == [kind |-> "NaN", v |-> 0]
Infinity == [kind |-> "Infinity", v |-> 0]

Number(s) ==
    CASE s = "" -> Num(0)
      [] s = "0" -> Num(0)
      [] s = "1" -> Num(1)
      [] s = "2" -> Num(2)
      [] s = "90" -> Num(90)
      [] s = "Infinity" -> Infinity
      [] OTHER -> NaN

isFinite(x) == x.kind = "num"

\* raw[0] === '#'
StartsWithHash(line) == line[1] \in {"#", "#c"}

\* .filter(Boolean) on the trimmed lines: blank lines go
FilterBoolean(lines) == SelectSeq(lines, LAMBDA l : l # <<"">>)

\* ParseLine with `!isFinite(lat) && !isFinite(lon)` for `||`
ParseLine_AndForOr(features, lines, i) ==
    LET parts == lines[i]
    IN  IF StartsWithHash(parts) \/ Len(parts) < 5
        THEN features
        ELSE LET lat == Number(parts[4])
                 lon == Number(parts[5])
             IN  IF ~isFinite(lat) /\ ~isFinite(lon)
                 THEN features
                 ELSE Append(features,
                        [id |-> IF parts[3] = "" THEN "T" \o ToString(i) ELSE parts[3],
                         type |-> parts[1],
                         bearing |-> Number(parts[2]),
                         coordinates |-> <<lon, lat>>])

\* One iteration of the parsing loop, i counted from 1 (JS index i-1, so the
\* default name 'T' + (index + 1) is "T" \o ToString(i)).
ParseLine(features, lines, i) ==
    LET parts == lines[i]
    IN  IF StartsWithHash(parts) \/ Len(parts) < 5
        THEN features
        ELSE LET type == parts[1]
                 bearing == Number(parts[2])
                 name == IF parts[3] = "" THEN "T" \o ToString(i) ELSE parts[3]
                 lat == Number(parts[4])
                 lon == Number(parts[5])
             IN  IF ~isFinite(lat) \/ ~isFinite(lon)
                 THEN features
                 ELSE Append(features,
                        [id |-> name, type |-> type, bearing |-> bearing,
                         coordinates |-> <<lon, lat>>])

RECURSIVE ParseFrom(_, _, _)
ParseFrom(features, lines, i) ==
    IF i > Len(lines) THEN features
    ELSE ParseFrom(ParseLine(features, lines, i), lines, i + 1)

\* lines 125-146: split, trim, filter, then the loop
ParseFeatures(rawLines) == ParseFrom(<<>>, FilterBoolean(rawLines), 1)

(***************************************************************************)
(* Coordinate files the fetch may deliver (main specification).            *)
(***************************************************************************)
LineA == <<"0", "90", "A", "1", "2">>
LineADup == <<"1", "", "A", "2", "1">>      \* same name as LineA, other place
LineB == <<"1", "0", "B", "2", "2">>
LineBadLat == <<"0", "0", "C", "x", "1">>
LineComment == <<"#c", "type", "name", "lat", "lon">>
LineShort == <<"0", "0", "D">>
LineTypeTwo == <<"2", "0", "G", "1", "1">>  \* a type that is neither "0" nor "1"

CoordFiles ==
    { <<LineA>>,
      <<LineA, LineADup>>,
      <<LineComment, LineA, LineBadLat, LineB>>,
      <<LineBadLat, <<"">>, LineShort>>,
      <<LineTypeTwo>> }

(***************************************************************************)
(* Messages.                                                               *)
(***************************************************************************)
MsgLoading == "Loading..."
MsgLoadingCoords == "Loading coordinates..."
MsgInitMap == "Initializing map..."
MsgQuerying == "Querying terrain elevations..."
MsgLoaded(n) == "Loaded " \o ToString(n) \o " turbine(s)"

ErrNoLibrary == "Mapbox GL JS failed to load"
ErrToken == "Missing attribute: mapbox-token"
ErrCoordsUrl == "Missing attribute: coordinates-url"
ErrModelUrl == "Missing attribute: model-url"
ErrNotDefined == "mapboxgl is not defined"     \* ReferenceError at the first use
ErrFetchStatus == "Failed to load coordinates: 404"
ErrFetchRejected == "Failed to fetch"          \* fetch rejects (network error)
ErrNoFeatures == "No valid features found in coordinates file"
ErrNullMap == "Cannot read properties of null" \* TypeError: this._map is null
ErrStyleNotLoaded == "Style is not done loading"
ErrSourceExists == "Source mapbox-dem already exists"

\* what the catch of connectedCallback (and of the handler) writes to #msg
CatchMsg(err) == "Error: " \o err

(***************************************************************************)
(* Tasks: one per connectedCallback.                                       *)
(*   pc        where the run of _init stands                               *)
(*   token, coordsUrl, modelUrl, modelUrl2                                 *)
(*             the element's attributes when _init read them               *)
(*   features  the parsed record list                                      *)
(*   err       message of the error _init threw                            *)
(*   fetches   number of fetch(coordsUrl) calls made                       *)
(*   detached  history: disconnectedCallback ran after this attach         *)
(*   lateRead  history: a step read `features` while detached              *)
(***************************************************************************)
NewTask(e) ==
    [elem |-> e, pc |-> "queued", token |-> UNREAD, coordsUrl |-> UNREAD,
     modelUrl |-> UNREAD, modelUrl2 |-> UNREAD, features |-> <<>>, err |-> "",
     fetches |-> 0, detached |-> FALSE, lateRead |-> FALSE]

Tasks == 1..Len(tasks)
Maps == 1..Len(maps)

\* a throw inside _init: es5 rejects the promise and the .catch callback runs
\* later; the class texts catch in the same function
Thrown(tk, err) ==
    [tk EXCEPT !.pc = IF variant = "es5" THEN "rejected" ELSE "failed", !.err = err]

MsgAfterThrow(e, err) ==
    IF variant = "es5" THEN msg ELSE [msg EXCEPT ![e] = CatchMsg(err)]

(***************************************************************************)
(* ensureLink / ensureScript: whether a tag is appended, and where the     *)
(* awaiting caller goes (a resolved promise, or the tag's onload).         *)
(***************************************************************************)
\* ensureLink without the look-up of an existing tag
ensureLink_NoLookup == [inject |-> 1, pc |-> "waitLink"]

ensureLink ==
    IF pageCss \/ cssInjected > 0
    THEN [inject |-> 0, pc |-> "afterLink"]
    ELSE [inject |-> 1, pc |-> "waitLink"]

ensureScript ==
    IF pageJs \/ jsInjected > 0
    THEN [inject |-> 0, pc |-> "afterScript"]
    ELSE [inject |-> 1, pc |-> "waitScript"]

(***************************************************************************)
(* Init                                                                    *)
(***************************************************************************)
Variants == {"es5", "class", "tail"}

MainInit ==
    /\ variant \in Variants
    /\ pageCss \in BOOLEAN
    /\ pageJs \in BOOLEAN
    /\ mapboxgl \in BOOLEAN
    /\ mapboxgl => pageJs
    /\ cssInjected = 0
    /\ jsInjected = 0
    /\ accessToken = UNDEFINED
    /\ turbineMap = 0
    /\ connected = [e \in Elems |-> FALSE]
    /\ _map = [e \in Elems |-> 0]
    /\ msg = [e \in Elems |-> MsgLoading]
    /\ tasks = <<>>
    /\ maps = <<>>

Init ==
    /\ MainInit
    /\ pLines = <<>>
    /\ pI = 0
    /\ pFeatures = <<>>

(***************************************************************************)
(* connectedCallback.  es5 defers _init to a microtask; the class texts    *)
(* run synchronously up to `await ensureLink(...)`.  The elements being    *)
(* alike, they are first attached in the order of their numbers.           *)
(***************************************************************************)
connectedCallback(e) ==
    /\ ~connected[e]
    /\ Len(tasks) < MaxAttach
    /\ \A d \in Elems : d < e => \E t \in Tasks : tasks[t].elem = d
    /\ connected' = [connected EXCEPT ![e] = TRUE]
    /\ IF variant = "es5"
       THEN /\ tasks' = Append(tasks, NewTask(e))
            /\ cssInjected' = cssInjected
       ELSE /\ tasks' = Append(tasks, [NewTask(e) EXCEPT !.pc = ensureLink.pc])
            /\ cssInjected' = cssInjected + ensureLink.inject
    /\ UNCHANGED <<variant, pageCss, pageJs, jsInjected, mapboxgl, accessToken,
                   turbineMap, _map, msg, maps, parseVars>>

\* es5: _init starts; lines 90-95
InitStart(t) ==
    /\ tasks[t].pc = "queued"
    /\ tasks' = [tasks EXCEPT ![t].pc = ensureLink.pc]
    /\ cssInjected' = cssInjected + ensureLink.inject
    /\ UNCHANGED <<variant, pageCss, pageJs, jsInjected, mapboxgl, accessToken,
                   turbineMap, connected, _map, msg, maps, parseVars>>

\* the injected link's onload resolves the injector's promise
LinkOnload(t) ==
    /\ tasks[t].pc = "waitLink"
    /\ tasks' = [tasks EXCEPT ![t].pc = "afterLink"]
    /\ UNCHANGED <<variant, docVars, mapboxgl, accessToken, turbineMap, connected,
                   _map, msg, maps, parseVars>>

\* the injected script runs (defining window.mapboxgl) and its onload resolves
ScriptOnload(t) ==
    /\ tasks[t].pc = "waitScript"
    /\ mapboxgl' = TRUE
    /\ tasks' = [tasks EXCEPT ![t].pc = "afterScript"]
    /\ UNCHANGED <<variant, docVars, accessToken, turbineMap, connected,
                   _map, msg, maps, parseVars>>

\* the page's own script tag finishes loading
PageScriptOnload ==
    /\ pageJs
    /\ ~mapboxgl
    /\ mapboxgl' = TRUE
    /\ UNCHANGED <<variant, docVars, accessToken, turbineMap, connected,
                   _map, msg, tasks, maps, parseVars>>


(***************************************************************************)
(* Step 3 of _init: the attribute reads, synchronous up to the fetch.      *)
(* tok, cu, mu, mu2 are the element's mapbox-token, coordinates-url,       *)
(* model-url and model-url2 attributes at that moment.                     *)
(***************************************************************************)
\* the value of `token`: "tail" asks for an attribute the element never has
TokenRead(tok) == attribute(IF variant = "tail" THEN NULL ELSE tok, UNDEFINED)

ReadAttributes(t, tok, cu, mu, mu2) ==
    LET e == tasks[t].elem
        tk == [tasks[t] EXCEPT !.token = tok, !.coordsUrl = cu, !.modelUrl = mu]
        token == TokenRead(tok)
        coordsUrl == attribute(cu, UNDEFINED)
        modelUrl == attribute(mu, UNDEFINED)
        err == CASE Falsy(token) -> ErrToken
                 [] ~Falsy(token) /\ ~mapboxgl -> ErrNotDefined
                 [] ~Falsy(token) /\ mapboxgl /\ Falsy(coordsUrl) -> ErrCoordsUrl
                 [] ~Falsy(token) /\ mapboxgl /\ ~Falsy(coordsUrl) /\ Falsy(modelUrl)
                      -> ErrModelUrl
                 [] OTHER -> ""
    IN  /\ accessToken' = IF ~Falsy(token) /\ mapboxgl THEN token ELSE accessToken
        /\ IF err # ""
           THEN /\ tasks' = [tasks EXCEPT ![t] = Thrown(tk, err)]
                /\ msg' = MsgAfterThrow(e, err)
           ELSE /\ tasks' = [tasks EXCEPT ![t] =
                                [tk EXCEPT !.modelUrl2 = mu2, !.pc = "waitFetch",
                                           !.fetches = @ + 1]]
                /\ msg' = [msg EXCEPT ![e] = MsgLoadingCoords]
        /\ UNCHANGED <<variant, docVars, mapboxgl, turbineMap, connected, _map,
                       maps, parseVars>>

\* after `await ensureLink(MAPBOX_CSS)`.  es5: `if (!window.mapboxgl) await
\* ensureScript(...)`, else straight on to the attribute reads; the class
\* texts always await ensureScript.
AfterLink(t) ==
    /\ tasks[t].pc = "afterLink"
    /\ IF variant = "es5" /\ mapboxgl
       THEN \E a \in AttrConfigs : ReadAttributes(t, a[1], a[2], a[3], a[4])
       ELSE /\ tasks' = [tasks EXCEPT ![t].pc = ensureScript.pc]
            /\ jsInjected' = jsInjected + ensureScript.inject
            /\ UNCHANGED <<variant, pageCss, cssInjected, pageJs, mapboxgl,
                           accessToken, turbineMap, connected, _map, msg, maps,
                           parseVars>>

\* after `await ensureScript(MAPBOX_JS)`.  The class texts throw when
\* window.mapboxgl is missing; es5 goes on.
AfterScript(t) ==
    /\ tasks[t].pc = "afterScript"
    /\ IF variant # "es5" /\ ~mapboxgl
       THEN /\ tasks' = [tasks EXCEPT ![t] = Thrown(@, ErrNoLibrary)]
            /\ msg' = MsgAfterThrow(tasks[t].elem, ErrNoLibrary)
            /\ UNCHANGED <<variant, docVars, mapboxgl, accessToken, turbineMap,
                           connected, _map, maps, parseVars>>
       ELSE \E a \in AttrConfigs : ReadAttributes(t, a[1], a[2], a[3], a[4])

\* es5: the .catch callback of connectedCallback
Catch(t) ==
    /\ tasks[t].pc = "rejected"
    /\ tasks' = [tasks EXCEPT ![t].pc = "failed"]
    /\ msg' = [msg EXCEPT ![tasks[t].elem] = CatchMsg(tasks[t].err)]
    /\ UNCHANGED <<variant, docVars, mapboxgl, accessToken, turbineMap, connected,
                   _map, maps, parseVars>>

\* fetch(coordsUrl) settles: a response that is ok, one that is not, or a
\* rejection
FetchSettles(t, outcome) ==
    /\ tasks[t].pc = "waitFetch"
    /\ LET err == CASE outcome = "ok" -> ""
                    [] outcome = "status" -> ErrFetchStatus
                    [] OTHER -> ErrFetchRejected
       IN  IF err = ""
           THEN /\ tasks' = [tasks EXCEPT ![t].pc = "waitText"]
                /\ msg' = msg
           ELSE /\ tasks' = [tasks EXCEPT ![t] = Thrown(@, err)]
                /\ msg' = MsgAfterThrow(tasks[t].elem, err)
    /\ UNCHANGED <<variant, docVars, mapboxgl, accessToken, turbineMap, connected,
                   _map, maps, parseVars>>

(***************************************************************************)
(* Maps: one per `new mapboxgl.Map`.                                       *)
(*   creator   the task that constructed it (whose closure the handler is) *)
(*   removed   remove() was called                                         *)
(*   loaded    'style.load' was fired                                      *)
(*   sources, terrain, models, layers, fstate   what the style holds       *)
(*   log       the events it fired to the handler and the calls on it that *)
(*             returned (a call that threw is not logged)                  *)
(*   hpc       the style.load handler: "none", "awaitIdle", "done", "error"*)
(*   hIdle     the instance whose 'idle' the handler awaits (0: none)      *)
(*   hMap      the instance the elevation loop wrote to (0: none)          *)
(*   qres      what queryTerrainElevation returned, per record             *)
(***************************************************************************)
NewMap(t) ==
    [creator |-> t, removed |-> FALSE, loaded |-> FALSE, sources |-> {},
     terrain |-> FALSE, models |-> {}, layers |-> {}, fstate |-> <<>>,
     log |-> <<>>, hpc |-> "none", hIdle |-> 0, hMap |-> 0, qres |-> <<>>]

\* _init builds the map before checking that any feature was parsed
BuildsMap_BeforeCheck(features) == TRUE

\* line 147: `if (!features.length) throw ...` stands before the map is built
BuildsMap(features) == Len(features) > 0

\* resp.text() resolves with a file; lines 124-166: parse, build the map,
\* register the style.load handler
TextResolves(t, file) ==
    /\ tasks[t].pc = "waitText"
    /\ LET e == tasks[t].elem
           features == ParseFeatures(file)
           tk == [tasks[t] EXCEPT !.features = features]
           err == IF Len(features) = 0 THEN ErrNoFeatures ELSE ""
       IN  /\ IF BuildsMap(features)
              THEN /\ maps' = Append(maps, NewMap(t))
                   /\ _map' = [_map EXCEPT ![e] = Len(maps) + 1]
                   /\ turbineMap' = IF variant = "es5" THEN Len(maps) + 1
                                    ELSE turbineMap
              ELSE UNCHANGED <<maps, _map, turbineMap>>
           /\ IF err # ""
              THEN /\ tasks' = [tasks EXCEPT ![t] = Thrown(tk, err)]
                   /\ msg' = MsgAfterThrow(e, err)
              ELSE /\ tasks' = [tasks EXCEPT ![t] =
                                   [tk EXCEPT !.pc = "done",
                                              !.lateRead = @ \/ tk.detached]]
                   /\ msg' = [msg EXCEPT ![e] = MsgInitMap]
    /\ UNCHANGED <<variant, docVars, mapboxgl, accessToken, connected, parseVars>>


(***************************************************************************)
(* The style.load handler.                                                 *)
(*                                                                         *)
(* Library contract used (Mapbox GL JS): an instance fires 'style.load'    *)
(* once, and fires nothing after remove(); addSource throws while the      *)
(* style is not loaded and when the id exists; setFeatureState throws      *)
(* while the style is not loaded and reports (without throwing) a source   *)
(* it does not know; queryTerrainElevation returns null without terrain.   *)
(***************************************************************************)
NoElevation == -1      \* queryTerrainElevation returned null
QueryResults == {NoElevation, 5}

\* `... || 0`
OrZero(r) == IF r = NoElevation THEN 0 ELSE r

SetFeatureState(fs, id, z) ==
    [k \in (DOMAIN fs) \cup {id} |-> IF k = id THEN z ELSE fs[k]]

\* lines 193-196
RECURSIVE PreSeed(_, _, _)
PreSeed(fs, features, j) ==
    IF j > Len(features) THEN fs
    ELSE PreSeed(SetFeatureState(fs, features[j].id, 0), features, j + 1)

\* lines 229-235, zs[k] being what the k-th query returned
RECURSIVE ElevationLoop(_, _, _, _)
ElevationLoop(fs, features, zs, k) ==
    IF k > Len(features) THEN fs
    ELSE ElevationLoop(SetFeatureState(fs, features[k].id, OrZero(zs[k])),
                       features, zs, k + 1)

\* addTurbineLayer(id, typeValue, modelId): the layer it adds.  coalesce says
\* whether model-translation reads ['coalesce', ['feature-state','z'], 0]
addTurbineLayer(id, typeValue, modelId) ==
    [id |-> id, filter |-> typeValue, model |-> modelId,
     coalesce |-> (variant = "es5")]

LayersFor(modelUrl2) ==
    IF ~Falsy(modelUrl2)
    THEN {addTurbineLayer("turbine-layer-type0", "0", "turbine0"),
          addTurbineLayer("turbine-layer-type1", "1", "turbine1")}
    ELSE {addTurbineLayer("turbine-layer", NULL, "turbine0")}

RECURSIVE Repeat(_, _)
Repeat(calls, n) == IF n = 0 THEN <<>> ELSE calls \o Repeat(calls, n - 1)

\* the calls of the handler from addSource('mapbox-dem') to once('idle')
RegisterCalls(features, modelUrl2) ==
    LET paint == IF variant = "es5" THEN <<>> ELSE <<"setPaintProperty">>
    IN  <<"addSource:mapbox-dem", "setTerrain", "addModel:turbine0">>
        \o (IF ~Falsy(modelUrl2) THEN <<"addModel:turbine1">> ELSE <<>>)
        \o <<"addSource:turbines">>
        \o (IF variant = "es5" THEN Repeat(<<"setFeatureState">>, Len(features))
            ELSE <<>>)
        \o (IF ~Falsy(modelUrl2)
            THEN <<"addLayer">> \o paint \o <<"addLayer">> \o paint
            ELSE <<"addLayer">> \o paint)
        \o <<"once:idle">>

\* the calls of the handler after the idle event
ElevationCalls(features) ==
    Repeat(<<"queryTerrainElevation", "setFeatureState">>, Len(features))
    \o (IF variant = "es5" /\ Len(features) > 1 THEN <<"fitBounds">> ELSE <<>>)

\* the handler leaves the record list as it is
FeaturesAfterHandler_Reversed(features) ==
    [k \in 1..Len(features) |-> features[Len(features) + 1 - k]]

FeaturesAfterHandler(features) == features

\* the instance the handler's calls go to: `self._map` / `this._map`, read at
\* each call
HandlerTarget(e) == _map[e]

\* 'style.load' fires on instance m: lines 169-225
StyleLoad(m) ==
    /\ ~maps[m].removed
    /\ ~maps[m].loaded
    /\ LET t == maps[m].creator
           e == tasks[t].elem
           X == HandlerTarget(e)
           features == tasks[t].features
           m1 == [maps EXCEPT ![m].loaded = TRUE, ![m].log = Append(@, "style.load")]
       IN  IF X = 0
           THEN /\ maps' = [m1 EXCEPT ![m].hpc = "error"]
                /\ msg' = [msg EXCEPT ![e] = CatchMsg(ErrNullMap)]
                /\ tasks' = tasks
           ELSE IF ~m1[X].loaded \/ "mapbox-dem" \in m1[X].sources
           THEN /\ maps' = [m1 EXCEPT ![m].hpc = "error"]
                /\ msg' = [msg EXCEPT ![e] =
                              CatchMsg(IF ~m1[X].loaded THEN ErrStyleNotLoaded
                                       ELSE ErrSourceExists)]
                /\ tasks' = tasks
           ELSE /\ maps' = [m1 EXCEPT
                              ![X].sources = @ \cup {"mapbox-dem", "turbines"},
                              ![X].terrain = TRUE,
                              ![X].models = @ \cup {"turbine0"} \cup
                                  (IF ~Falsy(tasks[t].modelUrl2) THEN {"turbine1"}
                                   ELSE {}),
                              ![X].fstate = IF variant = "es5"
                                            THEN PreSeed(@, features, 1) ELSE @,
                              ![X].layers = @ \cup LayersFor(tasks[t].modelUrl2),
                              ![X].log = @ \o RegisterCalls(features, tasks[t].modelUrl2),
                              ![m].hpc = "awaitIdle",
                              ![m].hIdle = X]
                /\ msg' = [msg EXCEPT ![e] = MsgQuerying]
                /\ tasks' = [tasks EXCEPT
                               ![t].features = FeaturesAfterHandler(@),
                               ![t].lateRead = @ \/ tasks[t].detached]
    /\ UNCHANGED <<variant, docVars, mapboxgl, accessToken, turbineMap, connected,
                   _map, parseVars>>

\* the awaited 'idle' fires: lines 227-248
Idle(m) ==
    /\ maps[m].hpc = "awaitIdle"
    /\ ~maps[maps[m].hIdle].removed
    /\ LET t == maps[m].creator
           e == tasks[t].elem
           Y == HandlerTarget(e)
           features == tasks[t].features
           n == Len(features)
           none == [k \in 1..n |-> NoElevation]
           m1 == [maps EXCEPT ![maps[m].hIdle].log = Append(@, "idle")]
       IN  /\ tasks' = [tasks EXCEPT
                          ![t].features = FeaturesAfterHandler(@),
                          ![t].lateRead = @ \/ tasks[t].detached]
           /\ IF Y = 0
              THEN /\ maps' = [m1 EXCEPT ![m].hpc = "error"]
                   /\ msg' = [msg EXCEPT ![e] = CatchMsg(ErrNullMap)]
              ELSE IF ~m1[Y].loaded
              THEN /\ maps' = [m1 EXCEPT
                                 ![Y].log = Append(@, "queryTerrainElevation"),
                                 ![m].hpc = "error",
                                 ![m].qres = <<NoElevation>>]
                   /\ msg' = [msg EXCEPT ![e] = CatchMsg(ErrStyleNotLoaded)]
              ELSE \E zs \in [1..n -> QueryResults] :
                   /\ ~m1[Y].terrain => zs = none
                   /\ maps' = [m1 EXCEPT
                                 ![Y].fstate = IF "turbines" \in m1[Y].sources
                                               THEN ElevationLoop(@, features, zs, 1)
                                               ELSE @,
                                 ![Y].log = @ \o ElevationCalls(features),
                                 ![m].hpc = "done",
                                 ![m].hMap = Y,
                                 ![m].qres = zs]
                   /\ msg' = [msg EXCEPT ![e] = MsgLoaded(n)]
    /\ UNCHANGED <<variant, docVars, mapboxgl, accessToken, turbineMap, connected,
                   _map, parseVars>>

\* lines 81-86
disconnectedCallback(e) ==
    /\ connected[e]
    /\ connected' = [connected EXCEPT ![e] = FALSE]
    /\ tasks' = [t \in Tasks |->
                    IF tasks[t].elem = e THEN [tasks[t] EXCEPT !.detached = TRUE]
                    ELSE tasks[t]]
    /\ LET m == _map[e]
       IN  IF m # 0
           THEN /\ maps' = [maps EXCEPT ![m].removed = TRUE,
                                        ![m].log = Append(@, "remove")]
                /\ _map' = [_map EXCEPT ![e] = 0]
           ELSE UNCHANGED <<maps, _map>>
    /\ UNCHANGED <<variant, docVars, mapboxgl, accessToken, turbineMap, msg,
                   parseVars>>

FetchOutcomes == {"ok", "status", "rejected"}

Next ==
    \/ \E e \in Elems : connectedCallback(e)
    \/ \E e \in Elems : disconnectedCallback(e)
    \/ \E t \in Tasks : InitStart(t)
    \/ \E t \in Tasks : LinkOnload(t)
    \/ \E t \in Tasks : AfterLink(t)
    \/ \E t \in Tasks : ScriptOnload(t)
    \/ PageScriptOnload
    \/ \E t \in Tasks : AfterScript(t)
    \/ \E t \in Tasks : Catch(t)
    \/ \E t \in Tasks, o \in FetchOutcomes : FetchSettles(t, o)
    \/ \E t \in Tasks, f \in CoordFiles : TextResolves(t, f)
    \/ \E m \in Maps : StyleLoad(m)
    \/ \E m \in Maps : Idle(m)

Spec == Init /\ [][Next]_vars


(***************************************************************************)
(* The parsing loop on its own (lines 125-146), one line per step, over    *)
(* every file of up to MaxLines lines.                                     *)
(***************************************************************************)
LineBadLon == <<"0", "0", "E", "1", "Infinity">>
LineNoName == <<"0", "0", "", "1", "1">>
LineEmptyLat == <<"1", "0", "F", "", "2">>     \* Number('') is 0

ParseLineSet ==
    {LineA, LineADup, LineB, LineBadLat, LineBadLon, LineNoName, LineEmptyLat,
     LineComment, LineShort, <<"">>}

RawFiles == UNION {[1..n -> ParseLineSet] : n \in 0..MaxLines}

InitParse ==
    /\ variant = "es5"
    /\ pageCss = FALSE
    /\ pageJs = FALSE
    /\ mapboxgl = FALSE
    /\ cssInjected = 0
    /\ jsInjected = 0
    /\ accessToken = UNDEFINED
    /\ turbineMap = 0
    /\ connected = [e \in Elems |-> FALSE]
    /\ _map = [e \in Elems |-> 0]
    /\ msg = [e \in Elems |-> MsgLoading]
    /\ tasks = <<>>
    /\ maps = <<>>
    /\ \E raw \in RawFiles : pLines = FilterBoolean(raw)
    /\ pI = 0
    /\ pFeatures = <<>>

\* one iteration of `for (var i = 0; i < lines.length; i++)`
ParseStep ==
    /\ pI < Len(pLines)
    /\ pFeatures' = ParseLine(pFeatures, pLines, pI + 1)
    /\ pI' = pI + 1
    /\ UNCHANGED <<variant, docVars, mapboxgl, accessToken, turbineMap, connected,
                   _map, msg, tasks, maps, pLines>>

NextParse == ParseStep

SpecParse == InitParse /\ [][NextParse]_vars

(***************************************************************************)
(* Properties.                                                             *)
(***************************************************************************)
ElemOf(m) == tasks[maps[m].creator].elem
Settled(t) == tasks[t].pc \in {"done", "failed"}

\* C1: once an element is disconnected and every _init it started has settled,
\* every map constructed for it has been removed and its _map is null.
C1_TornDownOnDetach ==
    \A e \in Elems :
        (~connected[e] /\ \A t \in Tasks : tasks[t].elem = e => Settled(t))
        => /\ _map[e] = 0
           /\ \A m \in Maps : ElemOf(m) = e => maps[m].removed

\* C2: on every map instance the calls come in the order style.load, then
\* mapbox-dem source and terrain, then models, turbines source and layers, then
\* the awaited idle, and only then queryTerrainElevation.
Before(log, i, call) == \E j \in 1..(i - 1) : log[j] = call

C2_CallOrder ==
    \A m \in Maps :
        LET log == maps[m].log
        IN  \A i \in 1..Len(log) :
                /\ log[i] = "addSource:mapbox-dem" => Before(log, i, "style.load")
                /\ log[i] = "setTerrain" => Before(log, i, "addSource:mapbox-dem")
                /\ log[i] \in {"addModel:turbine0", "addModel:turbine1",
                               "addSource:turbines", "addLayer"}
                       => Before(log, i, "setTerrain")
                /\ log[i] = "once:idle"
                       => /\ Before(log, i, "addModel:turbine0")
                          /\ Before(log, i, "addSource:turbines")
                          /\ Before(log, i, "addLayer")
                /\ log[i] = "queryTerrainElevation"
                       => \E j \in 1..(i - 1) :
                              /\ log[j] = "idle"
                              /\ Before(log, j, "once:idle")
                              /\ Before(log, j, "style.load")

\* C3: when a handler has finished with 'Loaded N turbine(s)', the feature-state
\* z under each record's id is what the query at that record's coordinates
\* returned (0 when it returned nothing).
C3_ElevationPerRecord ==
    \A m \in Maps :
        maps[m].hpc = "done" =>
            LET features == tasks[maps[m].creator].features
                fs == maps[maps[m].hMap].fstate
            IN  \A k \in 1..Len(features) :
                    /\ features[k].id \in DOMAIN fs
                    /\ fs[features[k].id] = OrZero(maps[m].qres[k])

\* C4: at most one stylesheet link and one script tag are injected, and none
\* when the page already holds a tag with that URL.
C4_AssetsInjectedOnce ==
    /\ cssInjected <= 1
    /\ jsInjected <= 1
    /\ pageCss => cssInjected = 0
    /\ pageJs => jsInjected = 0

C4_Witness ==
    /\ cssInjected = 1
    /\ jsInjected = 1
    /\ \E t \in Tasks, u \in Tasks :
          /\ tasks[t].elem # tasks[u].elem
          /\ tasks[t].pc = "waitFetch"
          /\ tasks[u].pc = "waitFetch"

\* C5: an initialization that is past the asset step and uses mapboxgl finds
\* window.mapboxgl defined.
C5_LibraryAvailable ==
    \A t \in Tasks :
        /\ tasks[t].err # ErrNotDefined
        /\ tasks[t].pc \in {"waitFetch", "waitText", "done"} => mapboxgl

\* C6: every record has a finite latitude and longitude, and the records are
\* exactly the well-formed lines with finite fourth and fifth field, in order:
\* a line that fails this is skipped and the loop goes on.
FiniteField(parts, k) == isFinite(Number(parts[k]))
WellFormed(parts) == Len(parts) >= 5 /\ ~StartsWithHash(parts)

C6_OnlyFiniteRecords ==
    /\ \A k \in 1..Len(pFeatures) :
          /\ isFinite(pFeatures[k].coordinates[1])
          /\ isFinite(pFeatures[k].coordinates[2])
    /\ Len(pFeatures) =
          Cardinality({k \in 1..pI : /\ WellFormed(pLines[k])
                                     /\ FiniteField(pLines[k], 4)
                                     /\ FiniteField(pLines[k], 5)})

C6_Witness ==
    /\ pI = Len(pLines)
    /\ Len(pLines) = 2
    /\ WellFormed(pLines[1])
    /\ ~FiniteField(pLines[1], 4) \/ ~FiniteField(pLines[1], 5)
    /\ Len(pFeatures) = 1

\* C7: the coordinate file is fetched at most once per connectedCallback, and
\* no step of an attach reads the record list after disconnectedCallback ran.
C7_ReadOnceThenDiscarded ==
    \A t \in Tasks : tasks[t].fetches <= 1 /\ ~tasks[t].lateRead

\* C8: once _init has built the map, no step changes the record list.
C8_FeaturesFrozen ==
    [][\A t \in Tasks : tasks[t].pc = "done" => tasks'[t].features = tasks[t].features]_vars

C8_Witness ==
    \E m \in Maps :
        /\ maps[m].hpc = "done"
        /\ Len(tasks[maps[m].creator].features) = 2
        /\ maps[m].removed

\* C9: 'Missing attribute: mapbox-token' / 'coordinates-url' / 'model-url' is
\* the error exactly when that attribute is absent or empty and the ones
\* checked before it are set.
Missing(v) == v \in {NULL, ""}

C9_MissingAttributeErrors ==
    \A t \in Tasks :
        tasks[t].token # UNREAD =>
            /\ tasks[t].err = ErrToken <=> Missing(tasks[t].token)
            /\ tasks[t].err = ErrCoordsUrl
                   <=> ~Missing(tasks[t].token) /\ Missing(tasks[t].coordsUrl)
            /\ tasks[t].err = ErrModelUrl
                   <=> /\ ~Missing(tasks[t].token)
                       /\ ~Missing(tasks[t].coordsUrl)
                       /\ Missing(tasks[t].modelUrl)

\* C10: an _init that fails constructs no map (so nothing is registered for
\* it), the step that handles the failure writes 'Error: ' + message to #msg
\* and leaves _map and every map as they are, and _map is null as long as no
\* _init of the element has built a map.
C10_FailureReportsAndStops ==
    /\ [](\A t \in Tasks : tasks[t].err # "" =>
              \A m \in Maps : maps[m].creator # t)
    /\ [](\A e \in Elems :
              (\A m \in Maps : ElemOf(m) # e) => _map[e] = 0)
    /\ [][\A t \in Tasks :
              (tasks[t].pc # "failed" /\ tasks'[t].pc = "failed")
              => /\ msg'[tasks[t].elem] = "Error: " \o tasks'[t].err
                 /\ _map' = _map
                 /\ maps' = maps]_vars

C10_Witness ==
    \E t \in Tasks, u \in Tasks :
        /\ tasks[t].pc = "failed" /\ tasks[t].err = ErrNoFeatures
        /\ tasks[u].pc = "failed"
        /\ tasks[u].err \in {ErrToken, ErrCoordsUrl, ErrModelUrl, ErrFetchStatus}
        /\ tasks[t].elem = tasks[u].elem
        /\ msg[tasks[t].elem] = "Error: " \o tasks[t].err
        /\ _map[tasks[t].elem] = 0


\* The layer filter applied to a record: ['boolean', true] matches every
\* record, ['==', ['get','type'], v] those whose type property is v.
Matches(layer, feature) == layer.filter = NULL \/ feature.type = layer.filter

\* the layers of instance m whose filter matches the record
MatchingLayers(m, feature) == {l \in maps[m].layers : Matches(l, feature)}

\* the handlers that have added their layers, each on the instance hIdle
Registered == {m \in Maps : maps[m].hpc \in {"awaitIdle", "done"}}

\* C11: without model-url2 every parsed record is matched by exactly one
\* layer, 'turbine-layer' with model turbine0; with model-url2 a record of type
\* "0" is matched only by 'turbine-layer-type0' (turbine0), one of type "1"
\* only by 'turbine-layer-type1' (turbine1), and every parsed record by exactly
\* one of the two.
C11_OneLayerPerRecord ==
    \A m \in Registered :
        LET t == maps[m].creator
            X == maps[m].hIdle
        IN  \A k \in 1..Len(tasks[t].features) :
                LET f == tasks[t].features[k]
                    ls == MatchingLayers(X, f)
                IN  /\ Cardinality(ls) = 1
                    /\ \A l \in ls :
                          IF Falsy(tasks[t].modelUrl2)
                          THEN l.id = "turbine-layer" /\ l.model = "turbine0"
                          ELSE /\ f.type = "0" =>
                                    l.id = "turbine-layer-type0" /\ l.model = "turbine0"
                               /\ f.type = "1" =>
                                    l.id = "turbine-layer-type1" /\ l.model = "turbine1"

\* C12: whenever a model layer exists on a map, every parsed record has a
\* feature-state z that is a number (0 from the pre-seeding loop, later the
\* queried elevation or 0).
C12_FeatureStateSeeded ==
    \A m \in Registered :
        LET X == maps[m].hIdle
            features == tasks[maps[m].creator].features
        IN  maps[X].layers # {} =>
                \A k \in 1..Len(features) :
                    /\ features[k].id \in DOMAIN maps[X].fstate
                    /\ maps[X].fstate[features[k].id] \in Nat


====
